---- MODULE Spec2Model ----
(***************************************************************************)
(* ngx-signal-immutability: the immutable-utility functions (deepFreeze,   *)
(* deepClone, naiveCloneAndMutate), the global options record and the      *)
(* immutableSignal proxy, modelled over an explicit object heap.           *)
(*                                                                         *)
(* A JavaScript value is a number, NaN, null, undefined, or a reference to *)
(* a heap node.  A heap node is a plain object, an array or a function; it *)
(* has a frozen flag (Object.isFrozen) and own properties.  Two names are  *)
(* modelled: "a", an ordinary data property, and "caller", which is an     *)
(* ordinary property on a plain object and one of the reserved names that  *)
(* deepFreeze skips on a function.                                         *)
(***************************************************************************)
EXTENDS Integers, Sequences, FiniteSets, TLC

\* ------------------------------------------------------------------ bounds
MaxNodes == 6     \* heap capacity (number of object identities)
MaxEdges == 2     \* references in a value graph the caller builds beforehand
MaxCalls == 1     \* set, update and mutate calls made on the signal
MaxViews == 2     \* derived signals made by immutable()
MaxCallsInRow == 2   \* calls made on the signal where one call follows another

\* ------------------------------------------------------------------ values
Node == 1..MaxNodes
Key == {"a", "caller"}
KeyOrder == <<"a", "caller">>     \* Object.getOwnPropertyNames order
ReservedProps == {"caller"}       \* of 'caller', 'callee', 'arguments'

Absent == [t |-> "absent", v |-> 0]     \* no own property (reads undefined)
Undef == [t |-> "undef", v |-> 0]       \* the value undefined
Prim(p) == [t |-> "prim", v |-> p]      \* a number
Null == [t |-> "null", v |-> 0]         \* null
NaN == [t |-> "nan", v |-> 0]           \* a number JSON has no text for
Ref(n) == [t |-> "ref", v |-> n]        \* reference to heap node n
IsRef(x) == x.t = "ref"

NoProps == [k \in Key |-> Absent]
EmptyHeap ==
  [kind |-> [n \in Node |-> "free"],
   frozen |-> [n \in Node |-> FALSE],
   props |-> [n \in Node |-> NoProps]]

Allocated(h) == {n \in Node : h.kind[n] # "free"}

\* Own property names of node n that the code reads (hasOwnProperty holds).
OwnProps(h, n) == {k \in Key : h.props[n][k] # Absent}

\* Nodes referenced directly by own properties of n.
Succ(h, n) == {h.props[n][k].v : k \in {q \in Key : IsRef(h.props[n][q])}}

RECURSIVE ReachFrom(_, _, _)
ReachFrom(h, frontier, seen) ==
  IF frontier = {} THEN seen
  ELSE LET nxt == (UNION {Succ(h, n) : n \in frontier}) \ seen
       IN  ReachFrom(h, nxt, seen \cup nxt)

\* Every node reachable from value x through own properties (x included).
Reach(h, x) == IF IsRef(x) THEN ReachFrom(h, {x.v}, {x.v}) ELSE {}

\* Object.isFrozen: primitives report frozen.
IsFrozen(h, x) == IsRef(x) => h.frozen[x.v]
DeepFrozen(h, x) == \A n \in Reach(h, x) : h.frozen[n]

\* ------------------------------------------------------------- deepFreeze
\* deepFreeze as the code runs it: freeze obj, then for each own property,
\* in order, recurse into a composite or callable value that is not frozen.
\* st = [frozen, calls, ok]: the frozen flags so far, the number of
\* deepFreeze invocations on heap nodes, and ok = FALSE once the invocation
\* budget FreezeFuel is used up (the walk did not finish).
FreezeFuel == 2 * MaxNodes

\* Mutants of the walk: no look at the frozen flag, no descent at all.
NoFrozenCheck(h, st, pv) == IsRef(pv)
NoDescent(h, st, pv) == FALSE

\* Lines 289-294: hasOwnProperty and, on a function, not a reserved name.
VisitsProp(h, n, k) ==
  /\ k \in OwnProps(h, n)
  /\ (h.kind[n] = "fn" => k \notin ReservedProps)

\* Lines 296-300: non-null object or function that is not frozen yet.
ShouldRecurse(h, st, pv) == IsRef(pv) /\ ~st.frozen[pv.v]

RECURSIVE FreezeNode(_, _, _), FreezeProps(_, _, _, _)
FreezeNode(h, st, n) ==
  IF ~st.ok THEN st
  ELSE IF st.calls >= FreezeFuel THEN [st EXCEPT !.ok = FALSE]
  ELSE FreezeProps(h, [st EXCEPT !.frozen[n] = TRUE, !.calls = @ + 1], n, 1)

FreezeProps(h, st, n, i) ==
  IF i > Len(KeyOrder) THEN st
  ELSE LET k == KeyOrder[i]
           pv == h.props[n][k]
           s1 == IF VisitsProp(h, n, k) /\ ShouldRecurse(h, st, pv)
                   THEN FreezeNode(h, st, pv.v)
                   ELSE st
       IN  FreezeProps(h, s1, n, i + 1)

\* Truthiness of a value (line 282): references and non-zero numbers.
Truthy(x) == IsRef(x) \/ (x.t = "prim" /\ x.v # 0)

\* Mutant: a frozen argument is handed back at once.
SkipsFrozenRoot(h, x) ==
  IF Truthy(x) /\ IsRef(x) /\ ~h.frozen[x.v]
    THEN LET st == FreezeNode(h, [frozen |-> h.frozen, calls |-> 0, ok |-> TRUE], x.v)
         IN  [heap |-> [h EXCEPT !.frozen = st.frozen], ret |-> x,
              calls |-> st.calls, ok |-> st.ok]
    ELSE [heap |-> h, ret |-> x, calls |-> 0, ok |-> TRUE]

\* deepFreeze(obj): [heap, ret, calls, ok].
deepFreeze(h, x) ==
  IF Truthy(x) /\ IsRef(x)
    THEN LET st == FreezeNode(h, [frozen |-> h.frozen, calls |-> 0, ok |-> TRUE], x.v)
         IN  [heap |-> [h EXCEPT !.frozen = st.frozen], ret |-> x,
              calls |-> st.calls, ok |-> st.ok]
    ELSE [heap |-> h, ret |-> x, calls |-> 0, ok |-> TRUE]

\* -------------------------------------------------------------- deepClone
Free(h) == Node \ Allocated(h)
Rank(S, x) == Cardinality({y \in S : y <= x})
Nth(S, i) == CHOOSE x \in S : Rank(S, x) = i

\* A clone call's outcome: [heap, ret, threw, fits].  fits = FALSE when the
\* heap capacity MaxNodes cannot hold the copy (the model then does not make
\* the call).
CloneResult(h, x, threw, fits) == [heap |-> h, ret |-> x, threw |-> threw, fits |-> fits]

\* structuredClone(value): a copy of the reachable graph that keeps shared
\* and cyclic references, with every copy a new unfrozen object or array; a
\* function anywhere in the graph raises DataCloneError.
structuredClone(h, x) ==
  IF ~IsRef(x) THEN CloneResult(h, x, FALSE, TRUE)
  ELSE LET R == Reach(h, x)
           F == Free(h)
           copy(n) == Nth(F, Rank(R, n))
           new == {copy(n) : n \in R}
           cp(v) == IF IsRef(v) THEN Ref(copy(v.v)) ELSE v
           src(m) == CHOOSE n \in R : copy(n) = m
       IN  IF \E n \in R : h.kind[n] = "fn" THEN CloneResult(h, Undef, TRUE, TRUE)
           ELSE IF Cardinality(F) < Cardinality(R) THEN CloneResult(h, Undef, FALSE, FALSE)
           ELSE CloneResult(
                  [kind |-> [m \in Node |-> IF m \in new THEN h.kind[src(m)] ELSE h.kind[m]],
                   frozen |-> [m \in Node |-> IF m \in new THEN FALSE ELSE h.frozen[m]],
                   props |-> [m \in Node |-> IF m \in new
                                               THEN [k \in Key |-> cp(h.props[src(m)][k])]
                                               ELSE h.props[m]]],
                  Ref(copy(x.v)), FALSE, TRUE)

\* What JSON.stringify writes for a value that is no object, in an object
\* and in an array: a property holding undefined is left out of an object
\* and becomes null in an array, and a number without JSON text becomes
\* null.
JsonLeaf(pv, inArray) ==
  IF pv = NaN THEN Null
  ELSE IF pv = Undef THEN (IF inArray THEN Null ELSE Absent)
  ELSE pv

\* An array's properties stand for its elements in order; a missing one
\* before a present one is a hole, for which JSON.stringify writes null.
Hole(h, n, i) ==
  /\ h.kind[n] = "arr"
  /\ h.props[n][KeyOrder[i]] = Absent
  /\ \E j \in (i + 1)..Len(KeyOrder) : h.props[n][KeyOrder[j]] # Absent

\* JSON.parse(JSON.stringify(value)) on an object or array: every
\* occurrence of an object becomes a copy of its own, a function-valued
\* property is left out of an object and becomes null in an array, and an
\* object met again below itself raises TypeError (circular structure).
\* st = [heap, ret, threw, fits]; anc = the objects being serialized
\* around n.
RECURSIVE JsonObject(_, _, _, _), JsonProps(_, _, _, _, _, _)
JsonObject(src, st, n, anc) ==
  IF n \in anc THEN [st EXCEPT !.threw = TRUE]
  ELSE IF Free(st.heap) = {} THEN [st EXCEPT !.fits = FALSE]
  ELSE LET m == Nth(Free(st.heap), 1)
           h1 == [st.heap EXCEPT !.kind[m] = src.kind[n], !.frozen[m] = FALSE,
                                 !.props[m] = NoProps]
           s2 == JsonProps(src, [st EXCEPT !.heap = h1], n, m, anc \cup {n}, 1)
       IN  [s2 EXCEPT !.ret = Ref(m)]

JsonProps(src, st, n, m, anc, i) ==
  IF i > Len(KeyOrder) \/ st.threw \/ ~st.fits THEN st
  ELSE LET k == KeyOrder[i]
           pv == src.props[n][k]
           s1 == IF Hole(src, n, i)
                   THEN [st EXCEPT !.heap.props[m][k] = Null]
                 ELSE IF ~IsRef(pv)
                   THEN [st EXCEPT !.heap.props[m][k] = JsonLeaf(pv, src.kind[n] = "arr")]
                 ELSE IF src.kind[pv.v] = "fn"
                   THEN [st EXCEPT !.heap.props[m][k] = JsonLeaf(Undef, src.kind[n] = "arr")]
                 ELSE LET c == JsonObject(src, st, pv.v, anc)
                      IN  IF c.threw \/ ~c.fits THEN c
                          ELSE [c EXCEPT !.heap.props[m][k] = c.ret]
       IN  JsonProps(src, s1, n, m, anc, i + 1)

\* Mutant: the fallback clones as structuredClone does.
CycleSafeClone(h, x) == structuredClone(h, x)

\* naiveDeepClone(value): JSON.stringify gives undefined for undefined and
\* for a function, and JSON.parse(undefined) raises SyntaxError.
naiveDeepClone(h, x) ==
  IF x = Undef \/ (IsRef(x) /\ h.kind[x.v] = "fn") THEN CloneResult(h, Undef, TRUE, TRUE)
  ELSE IF ~IsRef(x) THEN CloneResult(h, JsonLeaf(x, FALSE), FALSE, TRUE)
  ELSE LET c == JsonObject(h, CloneResult(h, Undef, FALSE, TRUE), x.v, {})
       IN  IF c.threw \/ ~c.fits THEN CloneResult(h, Undef, c.threw, c.fits) ELSE c

\* The host either provides structuredClone or it does not (line 249).
Env == {"structuredClone", "json"}

\* Mutant: the value itself is handed back.
NoCopy(h, e, x) == CloneResult(h, x, FALSE, TRUE)

deepClone(h, e, x) ==
  IF e = "structuredClone" THEN structuredClone(h, x) ELSE naiveDeepClone(h, x)

\* ------------------------------------------------------ mutation functions
\* A mutation function, as far as the library is concerned: up to
\* MaxWrites property writes on the draft it is given (at the object in its
\* "a" property, then at the draft itself), after which it returns or
\* throws.
MaxWrites == 2
WriteOrder ==
  << [path |-> <<"a">>, key |-> "a", val |-> Prim(1)],      \* d.a.a = 1
     [path |-> <<>>, key |-> "a", val |-> Prim(1)],         \* d.a = 1
     [path |-> <<>>, key |-> "a", val |-> Absent],          \* delete d.a
     [path |-> <<>>, key |-> "caller", val |-> Prim(1)],    \* d.caller = 1
     [path |-> <<>>, key |-> "caller", val |-> Absent] >>   \* delete d.caller

RECURSIVE Pick(_, _)
Pick(S, i) ==
  IF i > Len(WriteOrder) THEN <<>>
  ELSE (IF i \in S THEN <<WriteOrder[i]>> ELSE <<>>) \o Pick(S, i + 1)

WriteSeq == {Pick(S, 1) : S \in {T \in SUBSET (1..Len(WriteOrder)) : Cardinality(T) <= MaxWrites}}
Mutation == [writes : WriteSeq, throws : BOOLEAN]

\* The value a path leads to from the draft; undefined when it leads nowhere.
Resolve(h, d, path) ==
  IF path = <<>> THEN d
  ELSE IF IsRef(d) THEN h.props[d.v][path[1]]
  ELSE Undef

\* Runs the writes in order.  Code of an ES module is strict: a write
\* through undefined or a primitive, or to a frozen object, raises
\* TypeError and ends the function.  [heap, threw].
RECURSIVE RunWrites(_, _, _, _)
RunWrites(h, d, ws, i) ==
  IF i > Len(ws) THEN [heap |-> h, threw |-> FALSE]
  ELSE LET t == Resolve(h, d, ws[i].path)
       IN  IF ~IsRef(t) THEN [heap |-> h, threw |-> TRUE]
           ELSE IF h.frozen[t.v] THEN [heap |-> h, threw |-> TRUE]
           ELSE RunWrites([h EXCEPT !.props[t.v][ws[i].key] = ws[i].val], d, ws, i + 1)

RunMutation(h, d, m) ==
  LET r == RunWrites(h, d, m.writes, 1)
  IN  [heap |-> r.heap, threw |-> r.threw \/ m.throws]

\* ---------------------------------------------------- naiveCloneAndMutate
\* Mutant: the mutation runs on currentValue itself.
MutateInPlace(h, e, x) == CloneResult(h, x, FALSE, TRUE)

\* Mutant: the draft is frozen like the value it copies.
FrozenDraft(h, e, x) ==
  LET c == deepClone(h, e, x)
  IN  [c EXCEPT !.heap.frozen = [n \in Node |-> n \in Allocated(c.heap)]]

\* Line 270: the draft the mutation is given.
MakeDraft(h, e, x) == deepClone(h, e, x)

\* Nodes allocated for a draft that is dropped when the call throws are
\* garbage: nothing refers to them.
DropNew(h, before) ==
  [kind |-> [n \in Node |-> IF n \in Allocated(before) THEN h.kind[n] ELSE "free"],
   frozen |-> [n \in Node |-> IF n \in Allocated(before) THEN h.frozen[n] ELSE FALSE],
   props |-> [n \in Node |-> IF n \in Allocated(before) THEN h.props[n] ELSE NoProps]]

\* naiveCloneAndMutate(currentValue, mutation): [heap, ret, threw, cloneThrew,
\* mutThrew, fits].
naiveCloneAndMutate(h, e, x, m) ==
  LET c == MakeDraft(h, e, x)
      r == RunMutation(c.heap, c.ret, m)
  IN  IF c.threw \/ ~c.fits
        THEN [heap |-> h, ret |-> Undef, threw |-> c.threw, cloneThrew |-> c.threw,
              mutThrew |-> FALSE, fits |-> c.fits]
      ELSE IF r.threw
        THEN [heap |-> DropNew(r.heap, h), ret |-> Undef, threw |-> TRUE,
              cloneThrew |-> FALSE, mutThrew |-> TRUE, fits |-> TRUE]
      ELSE [heap |-> r.heap, ret |-> c.ret, threw |-> FALSE, cloneThrew |-> FALSE,
            mutThrew |-> FALSE, fits |-> TRUE]

\* --------------------------------------------------------- deep equality
\* Structural equality of two value graphs (Jest's toEqual on plain data):
\* equal primitives at equal paths, the same own properties on both sides.
Match(x, y) == IF IsRef(x) /\ IsRef(y) THEN TRUE ELSE x = y

PairSucc(h1, h2, pr) ==
  {<<h1.props[pr[1]][k].v, h2.props[pr[2]][k].v>> :
     k \in {q \in Key : IsRef(h1.props[pr[1]][q]) /\ IsRef(h2.props[pr[2]][q])}}

RECURSIVE PairsFrom(_, _, _, _)
PairsFrom(h1, h2, frontier, seen) ==
  IF frontier = {} THEN seen
  ELSE LET nxt == (UNION {PairSucc(h1, h2, pr) : pr \in frontier}) \ seen
       IN  PairsFrom(h1, h2, nxt, seen \cup nxt)

DeepEqual(h1, x, h2, y) ==
  /\ Match(x, y)
  /\ (IsRef(x) /\ IsRef(y)) =>
       \A pr \in PairsFrom(h1, h2, {<<x.v, y.v>>}, {<<x.v, y.v>>}) :
         /\ h1.kind[pr[1]] = h2.kind[pr[2]]
         /\ \A k \in Key : Match(h1.props[pr[1]][k], h2.props[pr[2]][k])

\* ------------------------------------------------------------------ state
VARIABLES
  heap,      \* the objects of the program
  env,       \* whether the host provides structuredClone
  global,    \* globalImmutableSignalOptions
  sig,       \* the immutableSignal under observation
  last       \* the most recent call and its outcome
vars == <<heap, env, global, sig, last>>

\* Value graphs the caller may hold before calling the library.  A graph
\* is grown from the single empty object 1 by adding up to MaxEdges
\* reference-valued properties, each to an existing node or to a new empty
\* object; then any set of nodes may have been frozen (Object.freeze by the
\* caller), at most one node may be a function, and the objects' missing
\* "a" properties may hold a number.
NodeCount(p) == Cardinality({n \in Node : \E m \in Node, k \in Key : p[m][k] = Ref(n)} \cup {1})

AddEdges(S) ==
  S \cup { [p EXCEPT ![s][k] = Ref(d)]
           : <<p, s, k, d>> \in
               { <<p, s, k, d>> \in S \X Node \X Key \X Node :
                   /\ s <= NodeCount(p)
                   /\ p[s][k] = Absent
                   /\ d <= NodeCount(p) + 1
                   /\ d <= MaxNodes } }

RECURSIVE Shapes(_)
Shapes(e) == IF e = 0 THEN {[n \in Node |-> NoProps]} ELSE AddEdges(Shapes(e - 1))

Decorate(p, n, withPrim) ==
  [i \in Node |->
     IF withPrim /\ i <= n /\ p[i]["a"] = Absent
       THEN [p[i] EXCEPT !["a"] = Prim(0)]
       ELSE p[i]]

InitHeaps ==
  UNION {
    { [kind |-> [i \in Node |-> IF i <= NodeCount(p)
                                  THEN (IF i = fnNode THEN "fn" ELSE "obj")
                                  ELSE "free"],
       frozen |-> [i \in Node |-> i \in fz],
       props |-> Decorate(p, NodeCount(p), withPrim)]
      : fz \in SUBSET (1..NodeCount(p)),
        fnNode \in 0..NodeCount(p),
        withPrim \in BOOLEAN }
    : p \in Shapes(MaxEdges) }

NoCall == [op |-> "none"]

\* Lines 200-207.
getDefaultImmutableSignalOptions ==
  [mutationProducerFn |-> "naiveCloneAndMutate", enableDeepFreezing |-> FALSE]

NoSignal == [exists |-> FALSE]

\* The values a caller can pass: numbers, undefined, any object it holds.
Args(h) == {Prim(0), Prim(1), Undef} \cup {Ref(n) : n \in Allocated(h)}

\* ------------------------------------------------------ options records
OptFlag == {"unset", "true", "false"}
OptProducer == {"unset", "naiveCloneAndMutate", "custom"}
OptEqual == {"unset", "tautology"}

\* a ?? b on an optional boolean, and on an optional producer.
FlagOr(o, d) == IF o = "unset" THEN d ELSE (o = "true")
ProducerOr(o, d) == IF o = "unset" THEN d ELSE o

\* setGlobalImmutableSignalOptions(options), lines 213-225.  A nullish
\* argument leaves the record as it is.
GlobalArg == [nullish : BOOLEAN, mutationProducerFn : OptProducer, enableDeepFreezing : OptFlag]

\* Mutant: a field the argument omits keeps its current content.
MergesIntoRecord(g, o) ==
  IF o.nullish THEN g
  ELSE [mutationProducerFn |-> ProducerOr(o.mutationProducerFn, g.mutationProducerFn),
        enableDeepFreezing |-> FlagOr(o.enableDeepFreezing, g.enableDeepFreezing)]

setGlobalImmutableSignalOptions(g, o) ==
  IF o.nullish THEN g
  ELSE [mutationProducerFn |->
          ProducerOr(o.mutationProducerFn, getDefaultImmutableSignalOptions.mutationProducerFn),
        enableDeepFreezing |->
          FlagOr(o.enableDeepFreezing, getDefaultImmutableSignalOptions.enableDeepFreezing)]

\* -------------------------------------------------------- immutableSignal
SignalOptions == [mutationProducerFn : OptProducer, enableDeepFreezing : OptFlag, equal : OptEqual]

\* Mutant: the host's default equality, under which an object never equals
\* anything (typeof a !== 'object' && Object.is(a, b)).
HostDefaultEquality(o, x, y) ==
  IF o = "unset" THEN ~IsRef(x) /\ x = y ELSE TRUE

\* Line 74: options?.equal ?? ((a, b) => a === b).  The one custom equality
\* modelled is the tests' () => true.
strictEqualityFn(o, x, y) ==
  IF o = "unset" THEN x = y ELSE TRUE

\* Mutant of the option resolution: the global record first.
GlobalFirstFreezing(o, g) == g.enableDeepFreezing

\* Lines 81-83 and 84-86.
deepFreezeEnabled(o, g) == FlagOr(o.enableDeepFreezing, g.enableDeepFreezing)
mutateFn(o, g) == ProducerOr(o.mutationProducerFn, g.mutationProducerFn)

\* immutableSignal(initialValue, options), lines 70-87: the signal and the
\* two constants its proxy closes over.  derived is the state of a computed
\* that reads the signal: "none" before its first read, then "fresh" or
\* "stale".  globalThen remembers the global record of that moment, calls
\* counts the set, update and mutate calls made so far, and computeds lists
\* the derived signals immutable() has made: computeds[k] is the signal the
\* k-th of them reads (0 is the signal itself).
immutableSignal(v, o, g) ==
  [exists |-> TRUE, value |-> v, options |-> o,
   deepFreezeEnabled |-> deepFreezeEnabled(o, g),
   mutateFn |-> mutateFn(o, g),
   derived |-> "none", globalThen |-> g, calls |-> 0, computeds |-> <<>>]

\* The host signal's set: stores and notifies only when the new value is
\* not equal to the current one.
TargetSet(s, x) ==
  IF strictEqualityFn(s.options.equal, s.value, x) THEN [s EXCEPT !.calls = @ + 1]
  ELSE [s EXCEPT !.value = x, !.calls = @ + 1,
                 !.derived = IF @ = "none" THEN "none" ELSE "stale"]

\* A value handed on as it is, and one that went through deepFreeze.
Kept(h, x) == [heap |-> h, ret |-> x, calls |-> 0, ok |-> TRUE, used |-> FALSE]
Through(r) == [heap |-> r.heap, ret |-> r.ret, calls |-> r.calls, ok |-> r.ok, used |-> TRUE]

\* Mutant: the traps read the global flag when they are called.
FreezingNow(s, g) == FlagOr(s.options.enableDeepFreezing, g.enableDeepFreezing)

\* The constants the proxy's traps close over (lines 81-86, read at lines
\* 92, 98 and 107).
FreezingOf(s, g) == s.deepFreezeEnabled
ProducerOf(s, g) == s.mutateFn

\* Mutant of the traps: set and update never freeze.
NeverFreeze(h, s, g, x) == Kept(h, x)

\* Lines 91-96 and 97-102: what the set and update traps hand to the host.
FreezeForStore(h, s, g, x) ==
  IF ~FreezingOf(s, g) THEN Kept(h, x) ELSE Through(deepFreeze(h, x))

\* Lines 103-112: what the mutate trap hands to the host.
PassProduced(h, s, g, x) == Kept(h, x)

NoMutation == [writes |-> <<>>, throws |-> FALSE]

Call(op) ==
  [op |-> op, arg |-> Undef, mutation |-> NoMutation, threw |-> FALSE,
   prev |-> Undef, produced |-> Undef, notified |-> FALSE, froze |-> FALSE,
   producer |-> "none", recomputed |-> FALSE, walk |-> 0, src |-> 0, view |-> 0]

SetGlobal(o) ==
  /\ global' = setGlobalImmutableSignalOptions(global, o)
  /\ last' = [Call("setGlobal") EXCEPT !.arg = o, !.prev = global]
  /\ UNCHANGED <<heap, env, sig>>

\* Mutant: the initial value is frozen when freezing is enabled.
FrozenAtCreation(h, o, g, x) ==
  IF deepFreezeEnabled(o, g) THEN Through(deepFreeze(h, x)) ELSE Kept(h, x)

\* Lines 76-79: what immutableSignal hands to the host's signal().
InitialValue(h, o, g, x) == Kept(h, x)

CreateSignal(v, o) ==
  /\ ~sig.exists
  /\ LET f == InitialValue(heap, o, global, v)
     IN  /\ heap' = f.heap
         /\ sig' = immutableSignal(f.ret, o, global)
         /\ last' = [Call("create") EXCEPT !.arg = v, !.froze = f.used]
  /\ UNCHANGED <<env, global>>

\* The runs explored make at most n set, update and mutate calls on the
\* signal; once they are made, nothing but reads follows.
CallsLeft(n) == sig.exists => sig.calls < n

\* sig.set(x)
Set(x) ==
  /\ sig.exists
  /\ LET f == FreezeForStore(heap, sig, global, x)
     IN  /\ heap' = f.heap
         /\ sig' = TargetSet(sig, f.ret)
         /\ last' = [Call("set") EXCEPT !.arg = x, !.prev = sig.value,
                       !.produced = f.ret,
                       !.notified = (sig'.value # sig.value),
                       !.froze = f.used, !.walk = f.calls]
  /\ UNCHANGED <<env, global>>

\* sig.update(fn), where fn returns x (the current value, or another one).
Update(x) ==
  /\ sig.exists
  /\ LET f == FreezeForStore(heap, sig, global, x)
     IN  /\ heap' = f.heap
         /\ sig' = TargetSet(sig, f.ret)
         /\ last' = [Call("update") EXCEPT !.arg = x, !.prev = sig.value,
                       !.produced = f.ret,
                       !.notified = (sig'.value # sig.value),
                       !.froze = f.used, !.walk = f.calls]
  /\ UNCHANGED <<env, global>>

\* The producer the tests configure, jest.fn(): it does not call the
\* mutator and returns undefined.
CustomProducer(h, e, x, m) ==
  [heap |-> h, ret |-> Undef, threw |-> FALSE, cloneThrew |-> FALSE,
   mutThrew |-> FALSE, fits |-> TRUE]

Produce(fn, h, e, x, m) ==
  IF fn = "naiveCloneAndMutate" THEN naiveCloneAndMutate(h, e, x, m)
  ELSE CustomProducer(h, e, x, m)

\* The host's update with what the producer made of the current value: r
\* is the producer's outcome.  When the producer throws, update never
\* reaches the host's set.  A produced value the host does not store is
\* garbage.
UpdateWithProduced(m, r) ==
  LET f == PassProduced(r.heap, sig, global, r.ret)
      s1 == TargetSet(sig, f.ret)
  IN  /\ r.fits
      /\ IF r.threw
           THEN /\ heap' = r.heap
                /\ sig' = [sig EXCEPT !.calls = @ + 1]
                /\ last' = [Call("mutate") EXCEPT !.mutation = m, !.threw = TRUE,
                              !.prev = sig.value,
                              !.producer = ProducerOf(sig, global)]
           ELSE /\ heap' = IF s1.value = sig.value THEN DropNew(f.heap, heap) ELSE f.heap
                /\ sig' = s1
                /\ last' = [Call("mutate") EXCEPT !.mutation = m,
                              !.prev = sig.value, !.produced = f.ret,
                              !.notified = (s1.value # sig.value),
                              !.froze = f.used, !.walk = f.calls,
                              !.producer = ProducerOf(sig, global)]

\* sig.mutate(m): target.update(val => mutateFn(val, m)).
Mutate(m) ==
  /\ sig.exists
  /\ UpdateWithProduced(m, Produce(ProducerOf(sig, global), heap, env, sig.value, m))
  /\ UNCHANGED <<env, global>>

\* derived(): a computed over the signal recomputes when the signal has
\* notified since its last computation.
ReadDerived ==
  /\ sig.exists
  /\ sig' = [sig EXCEPT !.derived = "fresh"]
  /\ last' = [Call("read") EXCEPT !.recomputed = (sig.derived = "stale")]
  /\ UNCHANGED <<heap, env, global>>

\* Mutant: immutable() always wraps.
AlwaysDerived(o, g) == TRUE

\* immutable(sig, options), lines 51-61: whether the result is a computed
\* that deep-freezes what it reads (a new signal) or sig itself.
immutable(o, g) == FlagOr(o.enableDeepFreezing, g.enableDeepFreezing)

\* The signals there are: 0 is the writable signal, k > 0 the k-th computed.
Signals(s) == 0..Len(s.computeds)

\* immutable(src, o): the signal it returns is src itself or a new
\* computed over src, which is not evaluated before it is read.
ImmutableCall(src, o) ==
  /\ sig.exists
  /\ src \in Signals(sig)
  /\ LET wrap == immutable(o, global)
     IN  /\ wrap => Len(sig.computeds) < MaxViews
         /\ sig' = IF wrap THEN [sig EXCEPT !.computeds = Append(@, src)] ELSE sig
         /\ last' = [Call("immutable") EXCEPT !.arg = o, !.froze = wrap, !.src = src,
                       !.view = IF wrap THEN Len(sig.computeds) + 1 ELSE src]
  /\ UNCHANGED <<heap, env, global>>

\* Mutant: the computed reads a copy.
ReadsCopy(h, x) == LET c == structuredClone(h, x) IN [heap |-> c.heap, ret |-> c.ret]

\* Line 58, the computation of a derived signal on the value x its source
\* yields: deepFreeze(sig()).
Computation(h, x) == LET f == deepFreeze(h, x) IN [heap |-> f.heap, ret |-> f.ret]

\* Reading signal id: the writable signal yields its value, a computed the
\* result of its computation on what its source yields.  (A computed
\* keeps its last result until its source notifies; the kept result is
\* the reference computed here, and computing it again freezes nothing
\* that is not frozen already.)
RECURSIVE ReadSignal(_, _, _)
ReadSignal(h, s, id) ==
  IF id = 0 THEN [heap |-> h, ret |-> s.value]
  ELSE LET r == ReadSignal(h, s, s.computeds[id])
       IN  Computation(r.heap, r.ret)

\* view(): reading one of the signals.
Read(id) ==
  /\ sig.exists
  /\ id \in Signals(sig)
  /\ LET r == ReadSignal(heap, sig, id)
     IN  /\ heap' = r.heap
         /\ last' = [Call("get") EXCEPT !.view = id, !.produced = r.ret,
                       !.prev = sig.value]
  /\ UNCHANGED <<env, global, sig>>

\* -------------------------------------------- the signal on value graphs
\* The caller's objects: chains and loops of plain objects linked by "a".
SigHeaps ==
  {h \in InitHeaps :
     \A n \in Allocated(h) : /\ h.kind[n] = "obj"
                             /\ h.props[n]["a"] # Absent
                             /\ h.props[n]["caller"] = Absent}

GlobalsAtStart ==
  {getDefaultImmutableSignalOptions,
   [getDefaultImmutableSignalOptions EXCEPT !.enableDeepFreezing = TRUE]}

Init ==
  /\ heap \in SigHeaps
  /\ env \in Env
  /\ global \in GlobalsAtStart
  /\ sig = NoSignal
  /\ last = NoCall

DataOptions ==
  {o \in SignalOptions : o.mutationProducerFn = "unset" /\ o.enableDeepFreezing # "false"}

Next ==
  \/ \E v \in {Ref(1), Prim(0)}, o \in DataOptions : CreateSignal(v, o)
  \/ CallsLeft(MaxCalls) /\ \E x \in Args(heap) : Set(x)
  \/ CallsLeft(MaxCalls) /\ \E x \in Args(heap) : Update(x)
  \/ CallsLeft(MaxCalls) /\ \E m \in Mutation : Mutate(m)
  \/ ReadDerived

Spec == Init /\ [][Next]_vars

\* ------------------------------------------------ the signal's options
\* One plain object {a: 0}, which both clone modes copy alike; every
\* combination of global and per-signal options, the global record being
\* set before and after the creation.
OneObject ==
  [EmptyHeap EXCEPT !.kind[1] = "obj", !.props[1]["a"] = Prim(0)]

InitOptions ==
  /\ heap = OneObject
  /\ env = "structuredClone"
  /\ global = getDefaultImmutableSignalOptions
  /\ sig = NoSignal
  /\ last = NoCall

PlainOptions == {o \in SignalOptions : o.equal = "unset"}
FlagOptions == {o \in PlainOptions : o.mutationProducerFn = "unset"}
OneWrite == {m \in Mutation : Len(m.writes) = 1 /\ ~m.throws}

NextOptions ==
  \/ CallsLeft(MaxCalls) /\ \E o \in GlobalArg : SetGlobal(o)
  \/ \E o \in PlainOptions : CreateSignal(Ref(1), o)
  \/ CallsLeft(MaxCalls) /\ \E x \in {Ref(1), Prim(1)} : Set(x)
  \/ CallsLeft(MaxCalls) /\ \E x \in {Ref(1), Prim(1)} : Update(x)
  \/ CallsLeft(MaxCalls) /\ \E m \in OneWrite : Mutate(m)
  \/ CallsLeft(MaxCalls) /\ \E o \in FlagOptions : ImmutableCall(0, o)

SpecOptions == InitOptions /\ [][NextOptions]_vars

\* ------------------------------------------------- deepFreeze on its own
InitFreeze ==
  /\ heap \in InitHeaps
  /\ env = "structuredClone"
  /\ global = getDefaultImmutableSignalOptions
  /\ sig = NoSignal
  /\ last = NoCall

\* A caller invokes deepFreeze(x) on a value it holds.  pre keeps the
\* frozen flags from before the call; again tells that x is what the
\* previous deepFreeze call returned.
DeepFreezeCall(x) ==
  LET r == deepFreeze(heap, x)
  IN  /\ heap' = r.heap
      /\ last' = [op |-> "deepFreeze", arg |-> x, ret |-> r.ret, ok |-> r.ok,
                  calls |-> r.calls, pre |-> heap.frozen,
                  again |-> (last.op = "deepFreeze" /\ last.ret = x)]
      /\ UNCHANGED <<env, global, sig>>

NextFreeze == \E x \in Args(heap) : DeepFreezeCall(x)

SpecFreeze == InitFreeze /\ [][NextFreeze]_vars

\* Nodes the walk must reach from root: through the properties it visits,
\* descending below the root and below nodes that were not frozen before.
RECURSIVE WalkFrom(_, _, _, _, _)
WalkFrom(h, pre, root, frontier, seen) ==
  IF frontier = {} THEN seen
  ELSE LET open == {n \in frontier : n = root \/ ~pre[n]}
           nxt == {h.props[n][k].v :
                     <<n, k>> \in {nk \in open \X Key :
                                     /\ VisitsProp(h, nk[1], nk[2])
                                     /\ IsRef(h.props[nk[1]][nk[2]])}} \ seen
       IN  WalkFrom(h, pre, root, nxt, seen \cup nxt)

Walked(h, pre, root) == WalkFrom(h, pre, root, {root}, {root})

\* C3 (as claimed): after deepFreeze(v) returns, v and every composite or
\* callable reachable from v through own properties is frozen, whatever the
\* frozen state of the nodes before the call.
C3_AllReachableFrozen ==
  last.op = "deepFreeze" => DeepFrozen(heap, last.ret)

\* C3 (amended): after deepFreeze(v) returns, v is frozen and so is every
\* node reachable from v through own properties, other than a function's
\* reserved ones, along a path on which no node between v and it was frozen
\* before the call.
C3_WalkedFrozen ==
  (last.op = "deepFreeze" /\ IsRef(last.arg)) =>
    \A n \in Walked(heap, last.pre, last.arg.v) : heap.frozen[n]

\* A call that froze a node two references below its argument.
C3_Witness ==
  /\ last.op = "deepFreeze"
  /\ IsRef(last.arg)
  /\ \E n \in Reach(heap, last.arg) :
       /\ ~last.pre[n] /\ heap.frozen[n]
       /\ n # last.arg.v
       /\ n \notin Succ(heap, last.arg.v)

\* C4: deepFreeze finishes on every value graph, cyclic or shared, entering
\* each reachable node at most once, and returns its argument; so does a
\* second call on the value the first call returned.
C4_TerminatesSameRef ==
  last.op = "deepFreeze" =>
    /\ last.ok
    /\ last.ret = last.arg
    /\ last.calls <= Cardinality(Reach(heap, last.arg))
    /\ (last.again /\ IsRef(last.arg)) => last.calls = 1

\* A second call on the result of a first, on a graph with a cycle through
\* a node other than the argument.
C4_Witness ==
  /\ last.op = "deepFreeze"
  /\ last.again
  /\ IsRef(last.arg)
  /\ \E n \in Reach(heap, last.arg) :
       n # last.arg.v /\ n \in UNION {Reach(heap, Ref(m)) : m \in Succ(heap, n)}
\* ---------------------------------------- naiveCloneAndMutate on its own
\* The caller's graph is wholly frozen or not frozen at all.
CloneHeaps ==
  {h \in InitHeaps : \/ \A n \in Allocated(h) : h.frozen[n]
                     \/ \A n \in Allocated(h) : ~h.frozen[n]}

InitClone ==
  /\ heap \in CloneHeaps
  /\ env \in Env
  /\ global = getDefaultImmutableSignalOptions
  /\ sig = NoSignal
  /\ last = NoCall

\* A caller invokes naiveCloneAndMutate(x, m) once.  pre keeps the heap
\* from before the call.
CloneAndMutateCall(x, m) ==
  LET r == naiveCloneAndMutate(heap, env, x, m)
  IN  /\ last = NoCall
      /\ r.fits
      /\ heap' = r.heap
      /\ last' = [op |-> "naiveCloneAndMutate", arg |-> x, mutation |-> m,
                  ret |-> r.ret, threw |-> r.threw, cloneThrew |-> r.cloneThrew,
                  pre |-> heap]
      /\ UNCHANGED <<env, global, sig>>

CloneArgs == {Ref(1), Prim(0), Undef}

NextClone == \E x \in CloneArgs, m \in Mutation : CloneAndMutateCall(x, m)

SpecClone == InitClone /\ [][NextClone]_vars

\* Every object that existed in heap h0 is in h1 what it was in h0.
Untouched(h0, h1) ==
  \A n \in Allocated(h0) :
    /\ h1.kind[n] = h0.kind[n]
    /\ h1.frozen[n] = h0.frozen[n]
    /\ h1.props[n] = h0.props[n]

Thawed(h) == [h EXCEPT !.frozen = [n \in Node |-> FALSE]]

\* What m does when it is run on x itself, were x not frozen.
Direct(h, x, m) == RunMutation(Thawed(h), x, m)

\* x is a tree: no object of it is referenced twice or from below itself.
IsTree(h, x) ==
  \A n \in Reach(h, x) :
    Cardinality({mk \in Reach(h, x) \X Key : h.props[mk[1]][mk[2]] = Ref(n)})
      = (IF n = x.v THEN 0 ELSE 1)

\* The active clone mode copies x as it is: no function in it and, under
\* the JSON fallback, no cyclic or repeated reference.
Faithful(h, e, x) ==
  /\ \A n \in Reach(h, x) : h.kind[n] = "obj"
  /\ e = "json" => IsTree(h, x)

Writes == {"set", "update", "mutate"}

\* C2: when the mutation function throws in sig.mutate(m), the call throws,
\* no value is produced, the signal keeps the very value it held, nothing
\* that existed before the call has changed (the writes made before the
\* throw are nowhere to be seen) and nothing is notified.
C2_ThrowLeavesValue ==
  [][(last'.op = "mutate" /\ last'.mutation.throws) =>
       /\ last'.threw
       /\ last'.produced = Undef
       /\ sig'.value = sig.value
       /\ heap' = heap
       /\ sig'.derived = sig.derived]_vars

\* A mutate call on an unfrozen nested object whose mutator wrote at both
\* levels and then threw.
C2_Witness ==
  /\ last.op = "mutate"
  /\ last.threw
  /\ last.mutation.throws
  /\ Len(last.mutation.writes) = 2
  /\ last.mutation.writes[1].path = <<"a">>
  /\ IsRef(sig.value)
  /\ ~heap.frozen[sig.value.v]
  /\ IsRef(heap.props[sig.value.v]["a"])
  /\ ~heap.frozen[heap.props[sig.value.v]["a"].v]

\* C5: with deep freezing enabled, the value a mutate call leaves in the
\* signal is deeply frozen.
C5_MutateResultFrozen ==
  (sig.exists /\ sig.deepFreezeEnabled /\ last.op = "mutate" /\ ~last.threw) =>
    DeepFrozen(heap, sig.value)

\* C6 (as claimed): with deep freezing enabled the value read after a set
\* or update call is deeply frozen; with it disabled the call freezes
\* nothing.
C6_SetUpdateDeepFrozen ==
  [][last'.op \in {"set", "update"} =>
       IF sig.deepFreezeEnabled THEN DeepFrozen(heap', sig'.value)
       ELSE heap' = heap]_vars

\* C6 (amended): with deep freezing enabled, set and update pass the value
\* through deepFreeze before the host's set: the value and every node
\* reachable from it along a path without a node frozen beforehand are
\* frozen, and nothing else changes; with it disabled the call freezes
\* nothing; and with the default equality the signal then holds that value.
C6_SetUpdatePassThroughFreeze ==
  [][last'.op \in {"set", "update"} =>
       /\ sig.options.equal = "unset" => sig'.value = last'.arg
       /\ IF sig.deepFreezeEnabled
            THEN /\ last'.froze
                 /\ IsRef(last'.arg) =>
                      \A n \in Walked(heap, heap.frozen, last'.arg.v) : heap'.frozen[n]
                 /\ heap'.props = heap.props /\ heap'.kind = heap.kind
                 /\ \A n \in Node : heap.frozen[n] => heap'.frozen[n]
            ELSE heap' = heap /\ ~last'.froze]_vars

\* A set call with freezing enabled that froze the value and the object
\* below it and left the signal holding a deeply frozen value.
C6_Witness ==
  /\ last.op = "set"
  /\ sig.deepFreezeEnabled
  /\ IsRef(sig.value) /\ sig.value = last.arg /\ sig.value # last.prev
  /\ last.walk >= 2
  /\ DeepFrozen(heap, sig.value)

C10_EveryMutate ==
  [][(/\ last'.op = "mutate"
      /\ IsRef(sig.value)
      /\ sig.mutateFn = "naiveCloneAndMutate"
      /\ sig.options.equal = "unset") =>
       /\ IsRef(sig'.value)
       /\ sig'.value # sig.value
       /\ last'.notified
       /\ sig.derived = "fresh" => sig'.derived = "stale"
       /\ DeepEqual(heap', sig'.value,
                    Direct(heap, sig.value, last'.mutation).heap, sig.value)]_vars

\* C10 (amended): the same of every mutate call whose mutator does not
\* throw, on a composite that the active clone mode copies as it is; the
\* new object is none that existed before, and what existed is unchanged.
C10_MutateThatReturns ==
  [][(/\ last'.op = "mutate"
      /\ IsRef(sig.value)
      /\ sig.mutateFn = "naiveCloneAndMutate"
      /\ sig.options.equal = "unset"
      /\ Faithful(heap, env, sig.value)
      /\ ~Direct(heap, sig.value, last'.mutation).threw) =>
       /\ ~last'.threw
       /\ IsRef(sig'.value)
       /\ sig'.value # sig.value
       /\ sig'.value.v \notin Allocated(heap)
       /\ Untouched(heap, heap')
       /\ last'.notified
       /\ sig.derived = "fresh" => sig'.derived = "stale"
       /\ DeepEqual(heap', sig'.value,
                    Direct(heap, sig.value, last'.mutation).heap, sig.value)]_vars

\* A mutate call with freezing enabled whose mutator wrote nothing and that
\* made the computed stale.
C10_Witness ==
  /\ last.op = "mutate"
  /\ ~last.threw
  /\ last.mutation.writes = <<>>
  /\ sig.deepFreezeEnabled
  /\ IsRef(last.prev)
  /\ sig.value # last.prev
  /\ sig.derived = "stale"

\* The per-invocation option when given, else the field of record g.
ResolvedFreezing(o, g) ==
  IF o.enableDeepFreezing = "true" THEN TRUE
  ELSE IF o.enableDeepFreezing = "false" THEN FALSE
  ELSE g.enableDeepFreezing
ResolvedProducer(o, g) ==
  IF o.mutationProducerFn # "unset" THEN o.mutationProducerFn ELSE g.mutationProducerFn

\* C7: immutableSignal and immutable take enableDeepFreezing, and
\* immutableSignal the producer, from the options they are given, else
\* from the global record; set, update and mutate act on that; and mutate
\* runs naiveCloneAndMutate only if the options name it or name nothing
\* while the global record holds it.
C7_OptionPrecedence ==
  /\ last.op = "create" =>
       /\ sig.deepFreezeEnabled = ResolvedFreezing(sig.options, global)
       /\ sig.mutateFn = ResolvedProducer(sig.options, global)
  /\ last.op = "immutable" => last.froze = ResolvedFreezing(last.arg, global)
  /\ last.op \in {"set", "update"} =>
       last.froze = ResolvedFreezing(sig.options, sig.globalThen)
  /\ last.op = "mutate" =>
       /\ last.producer = ResolvedProducer(sig.options, sig.globalThen)
       /\ last.producer = "naiveCloneAndMutate" =>
            \/ sig.options.mutationProducerFn = "naiveCloneAndMutate"
            \/ /\ sig.options.mutationProducerFn = "unset"
               /\ sig.globalThen.mutationProducerFn = "naiveCloneAndMutate"

\* A set call that froze nothing on a signal created with
\* enableDeepFreezing: false while the global flag was true.
C7_Witness ==
  /\ last.op = "set"
  /\ sig.options.enableDeepFreezing = "false"
  /\ sig.globalThen.enableDeepFreezing
  /\ ~last.froze
  /\ IsRef(last.arg)

\* C8 (as claimed): a signal without per-signal overrides uses, in each
\* set, update and mutate call, the flag and the producer that are in the
\* global record at the time of the call.
C8_GlobalReadOnEachCall ==
  /\ (last.op \in {"set", "update"} /\ sig.options.enableDeepFreezing = "unset") =>
       last.froze = global.enableDeepFreezing
  /\ (last.op = "mutate" /\ sig.options.mutationProducerFn = "unset") =>
       last.producer = global.mutationProducerFn

\* C8 (amended): it uses in every call the flag and the producer that were
\* in the global record when the signal was created, whatever
\* setGlobalImmutableSignalOptions has stored since.
C8_GlobalReadOnCreation ==
  /\ (last.op \in {"set", "update"} /\ sig.options.enableDeepFreezing = "unset") =>
       last.froze = sig.globalThen.enableDeepFreezing
  /\ (last.op = "mutate" /\ sig.options.mutationProducerFn = "unset") =>
       last.producer = sig.globalThen.mutationProducerFn

\* A call made after the global record was changed under the signal: a set
\* that froze its value although the flag is off by now, or a mutate that
\* ran another producer than the one configured by now.
C8_Witness ==
  \/ /\ last.op = "set"
     /\ sig.options.enableDeepFreezing = "unset"
     /\ last.froze
     /\ ~global.enableDeepFreezing
  \/ /\ last.op = "mutate"
     /\ sig.options.mutationProducerFn = "unset"
     /\ last.producer # global.mutationProducerFn

\* ------------------------------------------------------------ immutable()
\* A signal over a chain of plain objects, the derived signals immutable()
\* makes of it and of its own results, and reads of all of them.
InitImmutable ==
  /\ heap \in SigHeaps
  /\ env = "structuredClone"
  /\ global \in GlobalsAtStart
  /\ sig = NoSignal
  /\ last = NoCall

NextImmutable ==
  \/ \E v \in {Ref(1), Prim(0)}, o \in FlagOptions : CreateSignal(v, o)
  \/ CallsLeft(MaxCalls) /\ \E src \in 0..MaxViews, o \in FlagOptions : ImmutableCall(src, o)
  \/ \E id \in 0..MaxViews : Read(id)
  \/ CallsLeft(MaxCalls) /\ \E x \in Args(heap) : Set(x)

SpecImmutable == InitImmutable /\ [][NextImmutable]_vars

\* C11: immutable(src, o) returns src itself when the effective
\* enableDeepFreezing (o's, else the global one) is false and a new signal
\* over src, distinct from src and from every signal there was, when it is
\* true; and reading any signal so obtained, also one made of a result of
\* immutable(), yields the very reference the writable signal holds.
C11_SameSignalSameReference ==
  /\ last.op = "immutable" =>
       IF ResolvedFreezing(last.arg, global)
         THEN /\ last.view = Len(sig.computeds)
              /\ last.view # last.src
              /\ sig.computeds[last.view] = last.src
         ELSE last.view = last.src
  /\ last.op = "get" => last.produced = sig.value

\* A read of a derived signal made of a derived signal, which yielded the
\* signal's nested object and left it deeply frozen.
C11_Witness ==
  /\ last.op = "get"
  /\ sig.exists
  /\ last.view = 2
  /\ sig.computeds = <<0, 1>>
  /\ IsRef(last.produced)
  /\ IsRef(heap.props[last.produced.v]["a"])
  /\ heap.props[last.produced.v]["a"] # last.produced
  /\ DeepFrozen(heap, sig.value)

\* -------------------------------------------------- deepClone on its own
\* The values a caller builds: the graphs of Shapes, each node an object,
\* an array or a function, the missing "a" properties holding nothing, a
\* number, null, NaN or undefined.
LeafValues == {Absent, Prim(1), Null, NaN, Undef}

CopyHeaps ==
  UNION {
    { [kind |-> [i \in Node |-> IF i <= NodeCount(p) THEN kd[i] ELSE "free"],
       frozen |-> [i \in Node |-> FALSE],
       props |-> [i \in Node |->
                    IF i <= NodeCount(p) /\ p[i]["a"] = Absent
                      THEN [p[i] EXCEPT !["a"] = lv]
                      ELSE p[i]]]
      : kd \in [1..NodeCount(p) -> {"obj", "arr", "fn"}],
        lv \in LeafValues }
    : p \in Shapes(MaxEdges) }

InitCopy ==
  /\ heap \in CopyHeaps
  /\ env \in Env
  /\ global = getDefaultImmutableSignalOptions
  /\ sig = NoSignal
  /\ last = NoCall

CopyArgs == {Ref(1), Prim(1), Null, NaN, Undef}

\* One call of deepClone(x), and one of naiveDeepClone(x).
DeepCloneCall(x) ==
  /\ last = NoCall
  /\ LET r == deepClone(heap, env, x)
     IN  /\ r.fits
         /\ heap' = r.heap
         /\ last' = [op |-> "deepClone", arg |-> x, ret |-> r.ret, threw |-> r.threw,
                     pre |-> heap]
  /\ UNCHANGED <<env, global, sig>>

NaiveDeepCloneCall(x) ==
  /\ last = NoCall
  /\ LET r == naiveDeepClone(heap, x)
     IN  /\ r.fits
         /\ heap' = r.heap
         /\ last' = [op |-> "naiveDeepClone", arg |-> x, ret |-> r.ret, threw |-> r.threw,
                     pre |-> heap]
  /\ UNCHANGED <<env, global, sig>>

NextCopy ==
  \/ \E x \in CopyArgs : DeepCloneCall(x)
  \/ \E x \in CopyArgs : NaiveDeepCloneCall(x)

SpecCopy == InitCopy /\ [][NextCopy]_vars

\* No object of the graph is reachable from itself.
Acyclic(h, x) ==
  \A n \in Reach(h, x) : n \notin ReachFrom(h, Succ(h, n), Succ(h, n))

\* A value JSON has a text for: a number, null, or an acyclic graph of
\* objects and arrays without holes whose other properties are such.
JsonLike(h, x) ==
  IF ~IsRef(x) THEN x.t \in {"prim", "null"}
  ELSE /\ Acyclic(h, x)
       /\ \A n \in Reach(h, x) :
            /\ h.kind[n] \in {"obj", "arr"}
            /\ \A i \in 1..Len(KeyOrder) :
                 /\ ~Hole(h, n, i)
                 /\ h.props[n][KeyOrder[i]].t \in {"absent", "prim", "null", "ref"}

Cloned == last.op \in {"deepClone", "naiveDeepClone"}

\* C12: for every acyclic JSON-like value (objects and arrays, empty ones
\* too, numbers, null, shared sub-objects), naiveDeepClone and deepClone
\* return normally a value deeply equal to the argument, none of whose
\* objects existed before the call, and leave the argument as it was.
C12_CloneEqualUnshared ==
  (Cloned /\ JsonLike(last.pre, last.arg)) =>
    /\ ~last.threw
    /\ DeepEqual(heap, last.ret, last.pre, last.arg)
    /\ Reach(heap, last.ret) \cap Allocated(last.pre) = {}
    /\ Untouched(last.pre, heap)

\* A naiveDeepClone call on an object that holds one empty array in both of
\* its properties; the clone holds two arrays.
C12_Witness ==
  /\ last.op = "naiveDeepClone"
  /\ IsRef(last.arg) /\ IsRef(last.ret)
  /\ JsonLike(last.pre, last.arg)
  /\ LET p == last.pre.props[last.arg.v]
         q == heap.props[last.ret.v]
     IN  /\ IsRef(p["a"]) /\ p["caller"] = p["a"]
         /\ last.pre.kind[p["a"].v] = "arr"
         /\ OwnProps(last.pre, p["a"].v) = {}
         /\ IsRef(q["a"]) /\ IsRef(q["caller"]) /\ q["a"] # q["caller"]
         /\ heap.kind[q["a"].v] = "arr"

\* The objects JSON.stringify serializes below x: those reached without
\* passing through a function.
JsonSucc(h, n) == {m \in Succ(h, n) : h.kind[m] # "fn"}

RECURSIVE JsonReachFrom(_, _, _)
JsonReachFrom(h, frontier, seen) ==
  IF frontier = {} THEN seen
  ELSE LET nxt == (UNION {JsonSucc(h, n) : n \in frontier}) \ seen
       IN  JsonReachFrom(h, nxt, seen \cup nxt)

JsonCyclic(h, x) ==
  /\ IsRef(x)
  /\ \E n \in JsonReachFrom(h, {x.v}, {x.v}) :
       n \in JsonReachFrom(h, JsonSucc(h, n), JsonSucc(h, n))

HasCallable(h, x) == \E n \in Reach(h, x) : h.kind[n] = "fn"

\* C13 (as claimed): naiveDeepClone of an object or array that contains
\* callables or cyclic references raises nothing and returns a value.
C13_NeverRaises ==
  (last.op = "naiveDeepClone" /\ IsRef(last.arg)
     /\ last.pre.kind[last.arg.v] # "fn"
     /\ (HasCallable(last.pre, last.arg) \/ ~Acyclic(last.pre, last.arg))) =>
    ~last.threw

\* C13 (amended): naiveDeepClone raises exactly when the value is a
\* function or undefined, or an object or array that JSON.stringify meets
\* again below itself; otherwise it returns a value without any function in
\* it, a function-valued property being left out of an object and null in
\* an array; and the argument is left as it was either way.
C13_RaisesOnCycleDropsCallables ==
  last.op = "naiveDeepClone" =>
    /\ last.threw <=> \/ last.arg = Undef
                      \/ IsRef(last.arg) /\ last.pre.kind[last.arg.v] = "fn"
                      \/ JsonCyclic(last.pre, last.arg)
    /\ Untouched(last.pre, heap)
    /\ (~last.threw /\ IsRef(last.arg)) =>
         /\ IsRef(last.ret)
         /\ ~HasCallable(heap, last.ret)
         /\ \A k \in Key :
              LET pv == last.pre.props[last.arg.v][k]
              IN  (IsRef(pv) /\ last.pre.kind[pv.v] = "fn") =>
                    heap.props[last.ret.v][k] =
                      IF last.pre.kind[last.arg.v] = "arr" THEN Null ELSE Absent

\* A naiveDeepClone call on an object holding a function in one property
\* and an object in the other: it returned an object without the function.
C13_Witness ==
  /\ last.op = "naiveDeepClone"
  /\ ~last.threw
  /\ IsRef(last.arg) /\ IsRef(last.ret)
  /\ last.pre.kind[last.arg.v] = "obj"
  /\ LET p == last.pre.props[last.arg.v]
     IN  /\ IsRef(p["a"]) /\ last.pre.kind[p["a"].v] = "fn"
         /\ IsRef(p["caller"]) /\ last.pre.kind[p["caller"].v] = "obj"
  /\ heap.props[last.ret.v]["a"] = Absent
  /\ IsRef(heap.props[last.ret.v]["caller"])

\* ------------------------------------------- deepFreeze: frozen nodes
\* The nodes whose properties the walk enumerates: the argument, and the
\* nodes it reaches that were not frozen before the call.
Entered(h, pre, root) == {n \in Walked(h, pre, root) : n = root \/ ~pre[n]}

\* C14 (as claimed, at the argument): deepFreeze on a value that is frozen
\* already changes the state of nothing.
C14_FrozenRootUntouched ==
  (last.op = "deepFreeze" /\ IsRef(last.arg) /\ last.pre[last.arg.v]) =>
    heap.frozen = last.pre

\* C14 (amended): deepFreeze enumerates the properties of its argument,
\* frozen or not, and of the nodes it reaches that were not frozen before,
\* each once; a frozen node reached as a property is not entered, and no
\* node other than those entered changes state.
C14_FrozenPropertyNotEntered ==
  (last.op = "deepFreeze" /\ IsRef(last.arg)) =>
    LET E == Entered(heap, last.pre, last.arg.v)
    IN  /\ last.calls = Cardinality(E)
        /\ \A n \in Node : heap.frozen[n] # last.pre[n] => n \in E

\* A call on a frozen object whose unfrozen child, holding a frozen object
\* itself, was entered and frozen: two nodes entered, three reached.
C14_Witness ==
  /\ last.op = "deepFreeze"
  /\ IsRef(last.arg)
  /\ last.pre[last.arg.v]
  /\ last.calls = 2
  /\ \E n \in Succ(heap, last.arg.v) :
       /\ ~last.pre[n] /\ heap.frozen[n]
       /\ \E m \in Succ(heap, n) : m \notin {n, last.arg.v} /\ last.pre[m]

\* ------------------------------------------------- the global record
\* C15: setGlobalImmutableSignalOptions(o) with a non-nullish o leaves in
\* each field of the global record o's field when o has it and the
\* built-in default (naiveCloneAndMutate, false) when not, whatever the
\* record held; with a nullish o it leaves the record as it was; and it
\* changes nothing else.
C15_ReplacesWholeRecord ==
  [][last'.op = "setGlobal" =>
       /\ global' =
            IF last'.arg.nullish THEN global
            ELSE [mutationProducerFn |->
                    IF last'.arg.mutationProducerFn = "unset" THEN "naiveCloneAndMutate"
                    ELSE last'.arg.mutationProducerFn,
                  enableDeepFreezing |-> last'.arg.enableDeepFreezing = "true"]
       /\ UNCHANGED <<heap, env, sig>>]_vars

\* A call that names only a producer, made when the record's flag was
\* true: the flag is false afterwards.
C15_Witness ==
  /\ last.op = "setGlobal"
  /\ ~last.arg.nullish
  /\ last.arg.enableDeepFreezing = "unset"
  /\ last.arg.mutationProducerFn = "custom"
  /\ last.prev.enableDeepFreezing
  /\ last.prev.mutationProducerFn = "naiveCloneAndMutate"
  /\ global = [mutationProducerFn |-> "custom", enableDeepFreezing |-> FALSE]

\* ------------------------------------------------------------- creation
\* C16: immutableSignal(initialValue, options) stores initialValue as it
\* is: the signal holds the reference it was given and the call freezes
\* nothing, with deep freezing enabled or not.
C16_CreationStoresAsIs ==
  [][last'.op = "create" =>
       /\ sig'.exists
       /\ sig'.value = last'.arg
       /\ ~last'.froze
       /\ heap' = heap]_vars

\* A signal just created with deep freezing enabled on an object that has
\* an object below it, neither of them frozen.
C16_Witness ==
  /\ last.op = "create"
  /\ sig.deepFreezeEnabled
  /\ IsRef(sig.value)
  /\ ~heap.frozen[sig.value.v]
  /\ \E n \in Succ(heap, sig.value.v) : n # sig.value.v /\ ~heap.frozen[n]

\* ------------------------------------------- mutate on a frozen value
\* A signal with deep freezing enabled, created on an unfrozen graph, on
\* which one call follows another.
ThawHeaps == {h \in SigHeaps : \A n \in Node : ~h.frozen[n]}

FreezingOptions ==
  {o \in FlagOptions : o.enableDeepFreezing = "true"}

InitThaw ==
  /\ heap \in ThawHeaps
  /\ env \in Env
  /\ global = getDefaultImmutableSignalOptions
  /\ sig = NoSignal
  /\ last = NoCall

NextThaw ==
  \/ \E o \in FreezingOptions : CreateSignal(Ref(1), o)
  \/ CallsLeft(MaxCallsInRow) /\ \E x \in Args(heap) : Set(x)
  \/ CallsLeft(MaxCallsInRow) /\ \E x \in Args(heap) : Update(x)
  \/ CallsLeft(MaxCallsInRow) /\ \E m \in Mutation : Mutate(m)

SpecThaw == InitThaw /\ [][NextThaw]_vars

\* C17: with deep freezing enabled and the default producer, a mutate call
\* that follows a set or update call which left a deeply frozen object in
\* the signal fares as it would on an unfrozen copy of that object: it
\* throws only if the mutator does so there, and otherwise stores a new
\* object that shows all the mutator's writes; the frozen object held
\* before is left as it was, frozen flags included.
C17_MutateAfterFreeze ==
  [][(/\ last'.op = "mutate"
      /\ last.op \in {"set", "update"} /\ last.froze
      /\ sig.mutateFn = "naiveCloneAndMutate"
      /\ IsRef(sig.value)
      /\ DeepFrozen(heap, sig.value)) =>
       LET d == Direct(heap, sig.value, last'.mutation)
       IN  /\ Untouched(heap, heap')
           /\ Faithful(heap, env, sig.value) =>
                /\ last'.threw <=> d.threw
                /\ ~d.threw =>
                     /\ IsRef(sig'.value)
                     /\ sig'.value.v \notin Allocated(heap)
                     /\ DeepEqual(heap', sig'.value, d.heap, sig.value)]_vars

\* A mutate call that wrote at both levels of the draft, after a set call
\* had stored and frozen another nested object than the initial one.
C17_Witness ==
  /\ last.op = "mutate"
  /\ ~last.threw
  /\ sig.calls = 2
  /\ Len(last.mutation.writes) = 2
  /\ last.mutation.writes[1].path = <<"a">>
  /\ IsRef(last.prev) /\ last.prev # Ref(1)
  /\ IsRef(heap.props[last.prev.v]["a"])
  /\ DeepFrozen(heap, last.prev)
  /\ IsRef(sig.value) /\ sig.value # last.prev
  /\ IsRef(heap.props[sig.value.v]["a"])
  /\ heap.props[heap.props[sig.value.v]["a"].v]["a"] = Prim(1)

====
